---------------------------- MODULE Spec2Model ----------------------------
(***************************************************************************)
(* Model of the 3D hot-box heat solver, posts/heatAstroModel/heatEqnModel.py*)
(*                                                                         *)
(* A field (numpy array of shape (nx,ny,nz)) is a record                   *)
(*   [shape |-> <<nx,ny,nz>>, val |-> <<v_1, ..., v_(nx*ny*nz)>>]          *)
(* holding the elements in numpy's C (row-major) order; cells <<i,j,k>>    *)
(* are 0-based.  Temperatures are integers.  A value of the Laplacian is   *)
(* the exact rational num/den, den = k*dx^2 with k the factor the source   *)
(* line divides by.                                                        *)
(***************************************************************************)
EXTENDS Integers, Sequences, FiniteSets, TLC

\* ------------------------------------------------------------------ bounds
MaxDim == 5          \* largest extent of an input array along one axis
MaxDx == 2           \* largest grid spacing handed to lap3DFE
MaxB == 2            \* largest boundary coefficient handed to bdryConv
MaxDeltax == 7       \* largest grid spacing of the module (decimetres)
MaxRuns == 2         \* calls of simToyHotBox in one behaviour
MaxTmax == 4         \* largest tmax of a call, in units of 5 hours
SolverSteps == 3     \* steps the solver takes to cross t_span
MaxAttempts == 3     \* largest attempts handed to scrape_multiattempt
MaxRows == 2         \* most rows of the table of a page
StepsPerSecond == 4  \* the resolution of the times dt handed to update
MaxDt == 2           \* largest dt handed to update, in steps
MaxTime == 10        \* the time the updates of one object cover, in steps

\* ------------------------------------------------------- program constants
solarIntensity == 1000
airTemp == 27
oneHour == 3600
L == 30              \* 3 m, in decimetres
W == 20              \* 2 m
H == 15              \* 1.5 m
NColumns == 8        \* len(columns) in scrape_wunderground
m1 == 1
m2 == 2
u1 == 2
impactB == 2         \* b
stickLen == 6        \* L of puckStickCollision.construct
corTenths == 5       \* cor = 0.5
radTenths == 1       \* rad = 0.1
thkTenths == 2       \* thk = 0.2

VARIABLES
  opPc,      \* "input" | "lap" | "conv": which operator has been applied
  umat,      \* the input field
  dxIn,      \* dx handed to lap3DFE (0 before the call)
  TairIn,    \* Tair handed to bdryConv
  BIn,       \* B handed to bdryConv
  lapOut,    \* the field lap3DFE returned
  lapReads,  \* per cell, the cells of umat its final assignment read
  convOut    \* the field bdryConv returned

opVars == <<opPc, umat, dxIn, TairIn, BIn, lapOut, lapReads, convOut>>

VARIABLES
  Deltax, xmax, ymax, zmax,  \* the module's grid constants
  u0,        \* the module-level array u0
  pc,        \* "idle" | "called" | "solving" | "stepping" | "returned" | "raised"
  run,       \* the number of calls of simToyHotBox so far
  status,    \* per call: "Uninitialized" | "Running" | "Completed" | "Failed"
  argA, argB, argTmax, argNt,   \* the arguments A, B, tmax, nt of the current call
  time,      \* the requested output times (t_eval)
  tSpan,     \* the t_span handed to solve_ivp
  solverT, solverY,  \* the solver's time and state vector
  solT, solY,       \* the output times and snapshots collected so far
  nfev,      \* right-hand-side evaluations of the current call
  solverCalled,     \* whether the current call has called solve_ivp
  solverStatus,     \* "none" | "running" | "finished" | "failed"
  exc,       \* the exception the current call raised ("none": none)
  ret        \* the value the current call returned

modVars == <<Deltax, xmax, ymax, zmax, u0>>
runVars == <<pc, run, status, argA, argB, argTmax, argNt, time, tSpan,
             solverT, solverY, solT, solY,
             nfev, solverCalled, solverStatus, exc, ret>>

\* scrape_wunderground.py: one call of scrape_multiattempt
VARIABLES
  scrPc,      \* the position of the call: "off" | "idle" | "loop" | "chrome" | "get" |
              \* "source" | "quit" | "parse" | "sleep" | "return" | "done" | "raised"
  attempts,   \* the argument attempts
  wait_time,  \* the argument wait_time
  started,    \* the iterations of the for loop started so far
  df,         \* the local df of scrape_multiattempt
  page,       \* the page the driver of the current attempt has loaded
  drivers,    \* the browser drivers created and not quit
  produced,   \* the dataframe the last scrape_wunderground that returned has returned
  scrExc,     \* the last exception raised inside the try
  scrRet,     \* the value scrape_multiattempt returned
  scrLog      \* the calls, their outcomes and the waits, in order

scrVars == <<scrPc, attempts, wait_time, started, df, page, drivers, produced,
             scrExc, scrRet, scrLog>>

\* puckStickCollision.py: the updaters of the scene
VARIABLES
  colPc,     \* "off" | "play": whether the scene is playing
  mobs,      \* puck, stick and cm: centre, velocity, omega, rotation, coll
  clock,     \* per object, the time its updates have covered so far
  assigned   \* how often handle_collision has assigned the velocities

colVars == <<colPc, mobs, clock, assigned>>

\* dudtFlat called on the flattened field, as solve_ivp calls it
VARIABLES
  flatIn,    \* u.flatten(), the vector handed to dudtFlat
  uBack,     \* the field dudtFlat's reshape makes of it
  AIn,       \* A handed to dudtFlat
  flatOut,   \* the vector dudtFlat returned
  dudtOut    \* the field dudt returns for u

flatVars == <<flatIn, uBack, AIn, flatOut, dudtOut>>
extVars == <<scrVars, colVars, flatVars>>
vars == <<opVars, modVars, runVars, extVars>>

\* ------------------------------------------------------------------ fields
Cells(sh) == (0 .. sh[1]-1) \X (0 .. sh[2]-1) \X (0 .. sh[3]-1)

Size(sh) == sh[1] * sh[2] * sh[3]

\* C order: element <<i,j,k>> of an array of shape sh is at this offset
Off(sh, c) == c[1] * sh[2] * sh[3] + c[2] * sh[3] + c[3]

\* the cell held at offset o
Unravel(sh, o) == <<o \div (sh[2] * sh[3]), (o \div sh[3]) % sh[2], o % sh[3]>>

\* umat[i,j,k]
At(u, c) == u.val[Off(u.shape, c) + 1]

\* the array of shape sh whose element at cell c is v(c)
Build(sh, v(_)) == [shape |-> sh, val |-> [n \in 1 .. Size(sh) |-> v(Unravel(sh, n - 1))]]

\* F applied to the value of v, with v evaluated once (a local variable of
\* the program: computed when assigned, then only read)
Once(v, F(_)) == CHOOSE r \in {F(x) : x \in {v}} : TRUE

\* a constant array (np.zeros_like, ndarray.fill)
Full(sh, v) == Build(sh, LAMBDA c : v)

NoField == [shape |-> <<0, 0, 0>>, val |-> <<>>]

\* Python index resolution: a negative index counts from the end
Idx(n, p) == IF p < 0 THEN n + p ELSE p

\* ------------------------------------------------------------- lap3DFE
\* The 27 slice assignments of lap3DFE in program order.  An axis entry is
\* <<"abs", p>> for an integer index p, or <<"rel", s>> for a slice:
\* 1:-1 is <<"rel", 0>>, :-2 is <<"rel", -1>>, 2: is <<"rel", 1>>, i.e. the
\* offset from the target's 1:-1 slice.  A term is <<coef, x, y, z>>.
\* den is the factor of dx**2 in the divisor.
Assignments ==
  <<
     \* line 68: lap[1:-1,1:-1,1:-1]
     [tgt |-> <<<<"rel", 0>>, <<"rel", 0>>, <<"rel", 0>>>>, den |-> 1, line |-> 68,
      terms |-> << <<1, <<"rel", -1>>, <<"rel", 0>>, <<"rel", 0>>>>,
                   <<1, <<"rel", 1>>, <<"rel", 0>>, <<"rel", 0>>>>,
                   <<1, <<"rel", 0>>, <<"rel", -1>>, <<"rel", 0>>>>,
                   <<1, <<"rel", 0>>, <<"rel", 1>>, <<"rel", 0>>>>,
                   <<1, <<"rel", 0>>, <<"rel", 0>>, <<"rel", -1>>>>,
                   <<1, <<"rel", 0>>, <<"rel", 0>>, <<"rel", 1>>>>,
                   <<-6, <<"rel", 0>>, <<"rel", 0>>, <<"rel", 0>>>> >>],
     \* line 72: lap[0,1:-1,1:-1]
     [tgt |-> <<<<"abs", 0>>, <<"rel", 0>>, <<"rel", 0>>>>, den |-> 2, line |-> 72,
      terms |-> << <<2, <<"abs", 1>>, <<"rel", 0>>, <<"rel", 0>>>>,
                   <<1, <<"abs", 0>>, <<"rel", -1>>, <<"rel", 0>>>>,
                   <<1, <<"abs", 0>>, <<"rel", 1>>, <<"rel", 0>>>>,
                   <<1, <<"abs", 0>>, <<"rel", 0>>, <<"rel", -1>>>>,
                   <<1, <<"abs", 0>>, <<"rel", 0>>, <<"rel", 1>>>>,
                   <<-6, <<"abs", 0>>, <<"rel", 0>>, <<"rel", 0>>>> >>],
     \* line 74: lap[-1,1:-1,1:-1]
     [tgt |-> <<<<"abs", -1>>, <<"rel", 0>>, <<"rel", 0>>>>, den |-> 2, line |-> 74,
      terms |-> << <<2, <<"abs", -2>>, <<"rel", 0>>, <<"rel", 0>>>>,
                   <<1, <<"abs", -1>>, <<"rel", -1>>, <<"rel", 0>>>>,
                   <<1, <<"abs", -1>>, <<"rel", 1>>, <<"rel", 0>>>>,
                   <<1, <<"abs", -1>>, <<"rel", 0>>, <<"rel", -1>>>>,
                   <<1, <<"abs", -1>>, <<"rel", 0>>, <<"rel", 1>>>>,
                   <<-6, <<"abs", -1>>, <<"rel", 0>>, <<"rel", 0>>>> >>],
     \* line 76: lap[1:-1,0,1:-1]
     [tgt |-> <<<<"rel", 0>>, <<"abs", 0>>, <<"rel", 0>>>>, den |-> 2, line |-> 76,
      terms |-> << <<2, <<"rel", 0>>, <<"abs", 1>>, <<"rel", 0>>>>,
                   <<1, <<"rel", -1>>, <<"abs", 0>>, <<"rel", 0>>>>,
                   <<1, <<"rel", 1>>, <<"abs", 0>>, <<"rel", 0>>>>,
                   <<1, <<"rel", 0>>, <<"abs", 0>>, <<"rel", -1>>>>,
                   <<1, <<"rel", 0>>, <<"abs", 0>>, <<"rel", 1>>>>,
                   <<-6, <<"rel", 0>>, <<"abs", 0>>, <<"rel", 0>>>> >>],
     \* line 78: lap[1:-1,-1,1:-1]
     [tgt |-> <<<<"rel", 0>>, <<"abs", -1>>, <<"rel", 0>>>>, den |-> 2, line |-> 78,
      terms |-> << <<2, <<"rel", 0>>, <<"abs", -2>>, <<"rel", 0>>>>,
                   <<1, <<"rel", -1>>, <<"abs", -1>>, <<"rel", 0>>>>,
                   <<1, <<"rel", 1>>, <<"abs", -1>>, <<"rel", 0>>>>,
                   <<1, <<"rel", 0>>, <<"abs", -1>>, <<"rel", -1>>>>,
                   <<1, <<"rel", 0>>, <<"abs", -1>>, <<"rel", 1>>>>,
                   <<-6, <<"rel", 0>>, <<"abs", -1>>, <<"rel", 0>>>> >>],
     \* line 80: lap[1:-1,1:-1,0]
     [tgt |-> <<<<"rel", 0>>, <<"rel", 0>>, <<"abs", 0>>>>, den |-> 2, line |-> 80,
      terms |-> << <<2, <<"rel", 0>>, <<"rel", 0>>, <<"abs", 1>>>>,
                   <<1, <<"rel", -1>>, <<"rel", 0>>, <<"abs", 0>>>>,
                   <<1, <<"rel", 1>>, <<"rel", 0>>, <<"abs", 0>>>>,
                   <<1, <<"rel", 0>>, <<"rel", -1>>, <<"abs", 0>>>>,
                   <<1, <<"rel", 0>>, <<"rel", 1>>, <<"abs", 0>>>>,
                   <<-6, <<"rel", 0>>, <<"rel", 0>>, <<"abs", 0>>>> >>],
     \* line 82: lap[1:-1,1:-1,-1]
     [tgt |-> <<<<"rel", 0>>, <<"rel", 0>>, <<"abs", -1>>>>, den |-> 2, line |-> 82,
      terms |-> << <<2, <<"rel", 0>>, <<"rel", 0>>, <<"abs", -2>>>>,
                   <<1, <<"rel", -1>>, <<"rel", 0>>, <<"abs", -1>>>>,
                   <<1, <<"rel", 1>>, <<"rel", 0>>, <<"abs", -1>>>>,
                   <<1, <<"rel", 0>>, <<"rel", -1>>, <<"abs", -1>>>>,
                   <<1, <<"rel", 0>>, <<"rel", 1>>, <<"abs", -1>>>>,
                   <<-6, <<"rel", 0>>, <<"rel", 0>>, <<"abs", -1>>>> >>],
     \* line 86: lap[0,0,1:-1]
     [tgt |-> <<<<"abs", 0>>, <<"abs", 0>>, <<"rel", 0>>>>, den |-> 4, line |-> 86,
      terms |-> << <<2, <<"abs", 1>>, <<"abs", 0>>, <<"rel", 0>>>>,
                   <<2, <<"abs", 0>>, <<"abs", 1>>, <<"rel", 0>>>>,
                   <<1, <<"abs", 0>>, <<"abs", 0>>, <<"rel", -1>>>>,
                   <<1, <<"abs", 0>>, <<"abs", 0>>, <<"rel", 1>>>>,
                   <<-6, <<"abs", 0>>, <<"abs", 0>>, <<"rel", 0>>>> >>],
     \* line 87: lap[0,-1,1:-1]
     [tgt |-> <<<<"abs", 0>>, <<"abs", -1>>, <<"rel", 0>>>>, den |-> 4, line |-> 87,
      terms |-> << <<2, <<"abs", 1>>, <<"abs", -1>>, <<"rel", 0>>>>,
                   <<2, <<"abs", 0>>, <<"abs", -2>>, <<"rel", 0>>>>,
                   <<1, <<"abs", 0>>, <<"abs", -1>>, <<"rel", -1>>>>,
                   <<1, <<"abs", 0>>, <<"abs", -1>>, <<"rel", 1>>>>,
                   <<-6, <<"abs", 0>>, <<"abs", -1>>, <<"rel", 0>>>> >>],
     \* line 88: lap[-1,0,1:-1]
     [tgt |-> <<<<"abs", -1>>, <<"abs", 0>>, <<"rel", 0>>>>, den |-> 4, line |-> 88,
      terms |-> << <<2, <<"abs", 2>>, <<"abs", 0>>, <<"rel", 0>>>>,
                   <<2, <<"abs", -1>>, <<"abs", 1>>, <<"rel", 0>>>>,
                   <<1, <<"abs", -1>>, <<"abs", 0>>, <<"rel", -1>>>>,
                   <<1, <<"abs", -1>>, <<"abs", 0>>, <<"rel", 1>>>>,
                   <<-6, <<"abs", -1>>, <<"abs", 0>>, <<"rel", 0>>>> >>],
     \* line 89: lap[-1,-1,1:-1]
     [tgt |-> <<<<"abs", -1>>, <<"abs", -1>>, <<"rel", 0>>>>, den |-> 4, line |-> 89,
      terms |-> << <<2, <<"abs", 2>>, <<"abs", -1>>, <<"rel", 0>>>>,
                   <<2, <<"abs", -1>>, <<"abs", -2>>, <<"rel", 0>>>>,
                   <<1, <<"abs", -1>>, <<"abs", -1>>, <<"rel", -1>>>>,
                   <<1, <<"abs", -1>>, <<"abs", -1>>, <<"rel", 1>>>>,
                   <<-6, <<"abs", -1>>, <<"abs", -1>>, <<"rel", 0>>>> >>],
     \* line 90: lap[0,1:-1,0]
     [tgt |-> <<<<"abs", 0>>, <<"rel", 0>>, <<"abs", 0>>>>, den |-> 4, line |-> 90,
      terms |-> << <<2, <<"abs", 1>>, <<"rel", 0>>, <<"abs", 0>>>>,
                   <<2, <<"abs", 0>>, <<"rel", 0>>, <<"abs", 1>>>>,
                   <<1, <<"abs", 0>>, <<"rel", 1>>, <<"abs", 0>>>>,
                   <<1, <<"abs", 0>>, <<"rel", -1>>, <<"abs", 0>>>>,
                   <<-6, <<"abs", 0>>, <<"rel", 0>>, <<"abs", 0>>>> >>],
     \* line 91: lap[0,1:-1,-1]
     [tgt |-> <<<<"abs", 0>>, <<"rel", 0>>, <<"abs", -1>>>>, den |-> 4, line |-> 91,
      terms |-> << <<2, <<"abs", 1>>, <<"rel", 0>>, <<"abs", -1>>>>,
                   <<2, <<"abs", 0>>, <<"rel", 0>>, <<"abs", -2>>>>,
                   <<1, <<"abs", 0>>, <<"rel", 1>>, <<"abs", -1>>>>,
                   <<1, <<"abs", 0>>, <<"rel", -1>>, <<"abs", -1>>>>,
                   <<-6, <<"abs", 0>>, <<"rel", 0>>, <<"abs", -1>>>> >>],
     \* line 92: lap[-1,1:-1,0]
     [tgt |-> <<<<"abs", -1>>, <<"rel", 0>>, <<"abs", 0>>>>, den |-> 4, line |-> 92,
      terms |-> << <<2, <<"abs", -2>>, <<"rel", 0>>, <<"abs", 0>>>>,
                   <<2, <<"abs", -1>>, <<"rel", 0>>, <<"abs", 1>>>>,
                   <<1, <<"abs", -1>>, <<"rel", 1>>, <<"abs", 0>>>>,
                   <<1, <<"abs", -1>>, <<"rel", -1>>, <<"abs", 0>>>>,
                   <<-6, <<"abs", -1>>, <<"rel", 0>>, <<"abs", 0>>>> >>],
     \* line 93: lap[-1,1:-1,-1]
     [tgt |-> <<<<"abs", -1>>, <<"rel", 0>>, <<"abs", -1>>>>, den |-> 4, line |-> 93,
      terms |-> << <<2, <<"abs", -2>>, <<"rel", 0>>, <<"abs", -1>>>>,
                   <<2, <<"abs", -1>>, <<"rel", 0>>, <<"abs", -2>>>>,
                   <<1, <<"abs", -1>>, <<"rel", 1>>, <<"abs", -1>>>>,
                   <<1, <<"abs", -1>>, <<"rel", -1>>, <<"abs", -1>>>>,
                   <<-6, <<"abs", -1>>, <<"rel", 0>>, <<"abs", -1>>>> >>],
     \* line 94: lap[1:-1,0,0]
     [tgt |-> <<<<"rel", 0>>, <<"abs", 0>>, <<"abs", 0>>>>, den |-> 4, line |-> 94,
      terms |-> << <<2, <<"rel", 0>>, <<"abs", 1>>, <<"abs", 0>>>>,
                   <<2, <<"rel", 0>>, <<"abs", 0>>, <<"abs", 1>>>>,
                   <<1, <<"rel", -1>>, <<"abs", 0>>, <<"abs", 0>>>>,
                   <<1, <<"rel", 1>>, <<"abs", 0>>, <<"abs", 0>>>>,
                   <<-6, <<"rel", 0>>, <<"abs", 0>>, <<"abs", 0>>>> >>],
     \* line 95: lap[1:-1,0,-1]
     [tgt |-> <<<<"rel", 0>>, <<"abs", 0>>, <<"abs", -1>>>>, den |-> 4, line |-> 95,
      terms |-> << <<2, <<"rel", 0>>, <<"abs", 1>>, <<"abs", -1>>>>,
                   <<2, <<"rel", 0>>, <<"abs", 0>>, <<"abs", -2>>>>,
                   <<1, <<"rel", -1>>, <<"abs", 0>>, <<"abs", -1>>>>,
                   <<1, <<"rel", 1>>, <<"abs", 0>>, <<"abs", -1>>>>,
                   <<-6, <<"rel", 0>>, <<"abs", 0>>, <<"abs", -1>>>> >>],
     \* line 96: lap[1:-1,-1,0]
     [tgt |-> <<<<"rel", 0>>, <<"abs", -1>>, <<"abs", 0>>>>, den |-> 4, line |-> 96,
      terms |-> << <<2, <<"rel", 0>>, <<"abs", -2>>, <<"abs", 0>>>>,
                   <<2, <<"rel", 0>>, <<"abs", -1>>, <<"abs", 1>>>>,
                   <<1, <<"rel", -1>>, <<"abs", -1>>, <<"abs", 0>>>>,
                   <<1, <<"rel", 1>>, <<"abs", -1>>, <<"abs", 0>>>>,
                   <<-6, <<"rel", 0>>, <<"abs", -1>>, <<"abs", 0>>>> >>],
     \* line 97: lap[1:-1,-1,-1]
     [tgt |-> <<<<"rel", 0>>, <<"abs", -1>>, <<"abs", -1>>>>, den |-> 4, line |-> 97,
      terms |-> << <<2, <<"rel", 0>>, <<"abs", 2>>, <<"abs", -1>>>>,
                   <<2, <<"rel", 0>>, <<"abs", -1>>, <<"abs", -2>>>>,
                   <<1, <<"rel", -1>>, <<"abs", -1>>, <<"abs", -1>>>>,
                   <<1, <<"rel", 1>>, <<"abs", -1>>, <<"abs", -1>>>>,
                   <<-6, <<"rel", 0>>, <<"abs", -1>>, <<"abs", -1>>>> >>],
     \* line 100: lap[0,0,0]
     [tgt |-> <<<<"abs", 0>>, <<"abs", 0>>, <<"abs", 0>>>>, den |-> 2, line |-> 100,
      terms |-> << <<1, <<"abs", 1>>, <<"abs", 0>>, <<"abs", 0>>>>,
                   <<1, <<"abs", 0>>, <<"abs", 1>>, <<"abs", 0>>>>,
                   <<1, <<"abs", 0>>, <<"abs", 0>>, <<"abs", 1>>>>,
                   <<-3, <<"abs", 0>>, <<"abs", 0>>, <<"abs", 0>>>> >>],
     \* line 101: lap[-1,0,0]
     [tgt |-> <<<<"abs", -1>>, <<"abs", 0>>, <<"abs", 0>>>>, den |-> 2, line |-> 101,
      terms |-> << <<1, <<"abs", -2>>, <<"abs", 0>>, <<"abs", 0>>>>,
                   <<1, <<"abs", -1>>, <<"abs", 1>>, <<"abs", 0>>>>,
                   <<1, <<"abs", -1>>, <<"abs", 0>>, <<"abs", 1>>>>,
                   <<-3, <<"abs", -1>>, <<"abs", 0>>, <<"abs", 0>>>> >>],
     \* line 102: lap[0,-1,0]
     [tgt |-> <<<<"abs", 0>>, <<"abs", -1>>, <<"abs", 0>>>>, den |-> 2, line |-> 102,
      terms |-> << <<1, <<"abs", 1>>, <<"abs", -1>>, <<"abs", 0>>>>,
                   <<1, <<"abs", 0>>, <<"abs", -2>>, <<"abs", 0>>>>,
                   <<1, <<"abs", 0>>, <<"abs", -1>>, <<"abs", 1>>>>,
                   <<-3, <<"abs", 0>>, <<"abs", -1>>, <<"abs", 0>>>> >>],
     \* line 103: lap[0,0,-1]
     [tgt |-> <<<<"abs", 0>>, <<"abs", 0>>, <<"abs", -1>>>>, den |-> 2, line |-> 103,
      terms |-> << <<1, <<"abs", 1>>, <<"abs", 0>>, <<"abs", -1>>>>,
                   <<1, <<"abs", 0>>, <<"abs", 1>>, <<"abs", -1>>>>,
                   <<1, <<"abs", 0>>, <<"abs", 0>>, <<"abs", -2>>>>,
                   <<-3, <<"abs", 0>>, <<"abs", 0>>, <<"abs", -1>>>> >>],
     \* line 104: lap[0,-1,-1]
     [tgt |-> <<<<"abs", 0>>, <<"abs", -1>>, <<"abs", -1>>>>, den |-> 2, line |-> 104,
      terms |-> << <<1, <<"abs", 1>>, <<"abs", -1>>, <<"abs", -1>>>>,
                   <<1, <<"abs", 0>>, <<"abs", -2>>, <<"abs", -1>>>>,
                   <<1, <<"abs", 0>>, <<"abs", -1>>, <<"abs", -2>>>>,
                   <<-3, <<"abs", 0>>, <<"abs", -1>>, <<"abs", -1>>>> >>],
     \* line 105: lap[-1,0,-1]
     [tgt |-> <<<<"abs", -1>>, <<"abs", 0>>, <<"abs", -1>>>>, den |-> 2, line |-> 105,
      terms |-> << <<1, <<"abs", -2>>, <<"abs", 0>>, <<"abs", -1>>>>,
                   <<1, <<"abs", -1>>, <<"abs", 1>>, <<"abs", -1>>>>,
                   <<1, <<"abs", -1>>, <<"abs", 0>>, <<"abs", -2>>>>,
                   <<-3, <<"abs", -1>>, <<"abs", 0>>, <<"abs", -1>>>> >>],
     \* line 106: lap[-1,-1,0]
     [tgt |-> <<<<"abs", -1>>, <<"abs", -1>>, <<"abs", 0>>>>, den |-> 2, line |-> 106,
      terms |-> << <<1, <<"abs", 2>>, <<"abs", -1>>, <<"abs", 0>>>>,
                   <<1, <<"abs", -1>>, <<"abs", -2>>, <<"abs", 0>>>>,
                   <<1, <<"abs", -1>>, <<"abs", -1>>, <<"abs", 1>>>>,
                   <<-3, <<"abs", -1>>, <<"abs", -1>>, <<"abs", 0>>>> >>],
     \* line 107: lap[-1,-1,-1]
     [tgt |-> <<<<"abs", -1>>, <<"abs", -1>>, <<"abs", -1>>>>, den |-> 2, line |-> 107,
      terms |-> << <<1, <<"abs", -2>>, <<"abs", -1>>, <<"abs", -1>>>>,
                   <<1, <<"abs", -1>>, <<"abs", -2>>, <<"abs", -1>>>>,
                   <<1, <<"abs", -1>>, <<"abs", -1>>, <<"abs", -2>>>>,
                   <<-3, <<"abs", -1>>, <<"abs", -1>>, <<"abs", -1>>>> >>]
  >>

AxisInBounds(e, n) == e[1] = "rel" \/ (e[2] < n /\ e[2] >= -n)

\* numpy raises IndexError when an integer index is out of bounds for its axis
\* (the slices never raise and all have length max(n-2, 0))
LapRaises(sh) ==
  \E r \in 1 .. Len(Assignments) :
     \/ \E a \in 1 .. 3 : ~AxisInBounds(Assignments[r].tgt[a], sh[a])
     \/ \E t \in 1 .. Len(Assignments[r].terms) : \E a \in 1 .. 3 :
           ~AxisInBounds(Assignments[r].terms[t][a + 1], sh[a])

\* a slip in a target slice: lap[:-1] written where lap[1:-1] stands
AxisCoversFromZero(e, n, i) ==
  IF e[1] = "abs" THEN i = Idx(n, e[2]) ELSE 0 <= i /\ i <= n - 2

\* cell c belongs to the target region of a row
AxisCovers(e, n, i) ==
  IF e[1] = "abs" THEN i = Idx(n, e[2]) ELSE 1 <= i /\ i <= n - 2

Covers(row, sh, c) == \A a \in 1 .. 3 : AxisCovers(row.tgt[a], sh[a], c[a])

\* the rows that write cell c
Writers(rows, sh, c) == {r \in 1 .. Len(rows) : Covers(rows[r], sh, c)}

\* a later assignment overwrites an earlier one: the last row at or before r
\* that writes c stays (0: no row writes c)
RECURSIVE LastWriter(_, _, _, _)
LastWriter(rows, sh, c, r) ==
  IF r = 0 THEN 0
  ELSE IF Covers(rows[r], sh, c) THEN r
  ELSE LastWriter(rows, sh, c, r - 1)

FinalRow(rows, sh, c) == LastWriter(rows, sh, c, Len(rows))

\* Which targets contain a cell depends, on each axis, only on whether the
\* index is 0, the last one, or in between.  With at least 2 cells on each
\* axis these are three different cases, so the last writer of a cell is the
\* last writer of the cell of a 3x3x3 array in the same position.
Pos(n, i) == IF i = 0 THEN 0 ELSE IF i = n - 1 THEN 2 ELSE 1

\* the position of cell c as an offset into a 3x3x3 array, plus 1
PosOf(sh, c) == 9 * Pos(sh[1], c[1]) + 3 * Pos(sh[2], c[2]) + Pos(sh[3], c[3]) + 1

RowTable(rows) ==
  [n \in 1 .. 27 |-> FinalRow(rows, <<3, 3, 3>>, Unravel(<<3, 3, 3>>, n - 1))]

\* the cell of umat a term reads when the row is evaluated at target cell c
AxisRead(e, n, i) == IF e[1] = "abs" THEN Idx(n, e[2]) ELSE i + e[2]

ReadCell(term, sh, c) ==
  <<AxisRead(term[2], sh[1], c[1]), AxisRead(term[3], sh[2], c[2]),
    AxisRead(term[4], sh[3], c[3])>>

RECURSIVE SumTerms(_, _, _, _)
SumTerms(terms, u, c, n) ==
  IF n = 0 THEN 0
  ELSE Once(terms[n], LAMBDA term : term[1] * At(u, ReadCell(term, u.shape, c)))
       + SumTerms(terms, u, c, n - 1)

\* the value the row leaves in lap[c]
LapCell(row, u, dx, c) ==
  Once(row, LAMBDA r : [num |-> SumTerms(r.terms, u, c, Len(r.terms)),
                        den |-> r.den * dx * dx])

LapWith(rows, tab, u, dx) ==
  Build(u.shape, LAMBDA c : LapCell(rows[tab[PosOf(u.shape, c)]], u, dx, c))

\* per cell, the cells of umat that the assignment which stays has read
ReadsWith(rows, tab, sh) ==
  Build(sh, LAMBDA c :
    LET row == rows[tab[PosOf(sh, c)]]
    IN  {ReadCell(row.terms[t], sh, c) : t \in 1 .. Len(row.terms)})

AssignmentTable == RowTable(Assignments)

\* a slip a copy of the edge rows could bring to the corner of line 100:
\* - 6*umat[0, 0, 0] in place of - 3*umat[0, 0, 0]
AssignmentsBadCorner == [Assignments EXCEPT ![20].terms[4][1] = -6]

AssignmentsBadCornerTable == RowTable(AssignmentsBadCorner)

lap3DFEBadCorner(u, dx) == LapWith(AssignmentsBadCorner, AssignmentsBadCornerTable, u, dx)

lap3DFE(u, dx) == LapWith(Assignments, AssignmentTable, u, dx)

lap3DFEReads(sh) == ReadsWith(Assignments, AssignmentTable, sh)

\* ------------------------------------------------------------- bdryConv
\* the six boundary faces the fills of lines 47-52 and 54-59 address
Faces == {<<1, 0>>, <<2, 0>>, <<3, 0>>, <<1, -1>>, <<2, -1>>, <<3, -1>>}

OnFace(sh, c, f) == c[f[1]] = Idx(sh[f[1]], f[2])

\* np.zeros_like, then one assignment v(c) per face: a later fill overwrites
\* an earlier one with the same value, nothing is added up
FillFaces(faces, sh, v(_)) ==
  Build(sh, LAMBDA c : IF \E f \in faces : OnFace(sh, c, f) THEN v(c) ELSE 0)

BdryConvWith(faces, u, Tair, B) ==
  Once(FillFaces(faces, u.shape, LAMBDA c : Tair), LAMBDA bdryTemp :
  Once(FillFaces(faces, u.shape, LAMBDA c : At(u, c)), LAMBDA uSurf :
    Build(u.shape, LAMBDA c : B * (At(bdryTemp, c) - At(uSurf, c)))))

\* the face [:,:,-1] forgotten in both runs of fills
bdryConvFiveFaces(u, Tair, B) == BdryConvWith(Faces \ {<<3, -1>>}, u, Tair, B)

bdryConv(u, Tair, B) == BdryConvWith(Faces, u, Tair, B)

\* ------------------------------------------------- operators on their own
\* shapes (xmax, ymax, zmax) of a box with L >= W >= H cut with one spacing,
\* at least 3 cells along each axis
Shapes ==
  {sh \in (3 .. MaxDim) \X (3 .. MaxDim) \X (3 .. MaxDim) : sh[1] >= sh[2] /\ sh[2] >= sh[3]}

\* the input fields: a constant field, or one with a single cell raised by 1
Bump(sh, v, p) == Build(sh, LAMBDA c : IF c = p THEN v + 1 ELSE v)

InputFields ==
  UNION {{Full(sh, airTemp)} \cup {Bump(sh, airTemp, p) : p \in Cells(sh)} : sh \in Shapes}

NoRet == [t |-> <<>>, y |-> <<>>, status |-> 0, success |-> FALSE]

\* the variables of a part of the program that a behaviour does not run
OpIdle ==
  /\ opPc = "off" /\ umat = NoField /\ dxIn = 0 /\ TairIn = 0 /\ BIn = 0
  /\ lapOut = NoField /\ lapReads = NoField /\ convOut = NoField

RunIdle ==
  /\ Deltax = 0 /\ xmax = 0 /\ ymax = 0 /\ zmax = 0 /\ u0 = NoField
  /\ pc = "off" /\ run = 0 /\ status = <<>>
  /\ argA = 0 /\ argB = 0 /\ argTmax = 0 /\ argNt = 0 /\ time = <<>> /\ tSpan = <<>>
  /\ solverT = 0 /\ solverY = <<>> /\ solT = <<>> /\ solY = <<>> /\ nfev = 0
  /\ solverCalled = FALSE /\ solverStatus = "none" /\ exc = "none" /\ ret = NoRet

\* a dataframe: its number of columns, of timestamps and of data rows
NoDf == [columns |-> -1, timestamps |-> 0, rows |-> 0]

NoPage == [container |-> FALSE, tbodies |-> -1, hours |-> 0, ncells |-> 0, bad |-> FALSE]

ScrIdle ==
  /\ scrPc = "off" /\ attempts = 0 /\ wait_time = 0 /\ started = 0
  /\ df = NoDf /\ page = NoPage /\ drivers = 0 /\ produced = NoDf
  /\ scrExc = "none" /\ scrRet = NoDf /\ scrLog = <<>>

ColIdle == colPc = "off" /\ mobs = <<>> /\ clock = <<>> /\ assigned = 0

FlatIdle ==
  /\ flatIn = <<>> /\ uBack = NoField /\ AIn = 0 /\ flatOut = <<>> /\ dudtOut = NoField

ExtIdle == ScrIdle /\ ColIdle /\ FlatIdle

OpInit ==
  /\ RunIdle /\ ExtIdle
  /\ opPc = "input"
  /\ umat \in InputFields
  /\ dxIn = 0 /\ TairIn = 0 /\ BIn = 0
  /\ lapOut = NoField /\ lapReads = NoField /\ convOut = NoField

ApplyLap ==
  /\ opPc = "input"
  /\ \E dx \in 1 .. MaxDx :
       /\ dxIn' = dx
       /\ lapOut' = lap3DFE(umat, dx)
  /\ lapReads' = lap3DFEReads(umat.shape)
  /\ opPc' = "lap"
  /\ UNCHANGED <<umat, TairIn, BIn, convOut, modVars, runVars, extVars>>

ApplyBdryConv ==
  /\ opPc = "input"
  /\ \E Tair \in {airTemp, airTemp + 1}, B \in 0 .. MaxB :
       /\ TairIn' = Tair /\ BIn' = B
       /\ convOut' = bdryConv(umat, Tair, B)
  /\ opPc' = "conv"
  /\ UNCHANGED <<umat, dxIn, lapOut, lapReads, modVars, runVars, extVars>>

OpNext == ApplyLap \/ ApplyBdryConv

OpSpec == OpInit /\ [][OpNext]_vars

\* ------------------------------------------------- flatten and reshape
\* a slip: the elements in Fortran (column-major) order
flattenFortran(u) ==
  Once(u, LAMBDA a :
    [n \in 1 .. Size(a.shape) |->
       At(a, <<(n - 1) % a.shape[1], ((n - 1) \div a.shape[1]) % a.shape[2],
               (n - 1) \div (a.shape[1] * a.shape[2])>>)])

\* ndarray.flatten(): a copy of the elements, in C order
flatten(u) ==
  Once(u, LAMBDA a : [n \in 1 .. Size(a.shape) |-> At(a, Unravel(a.shape, n - 1))])

\* uflat.reshape(xmax, ymax, zmax): element <<i,j,k>> is uflat[Off]
reshape(uflat, sh) == Build(sh, LAMBDA c : uflat[Off(sh, c) + 1])

\* ---------------------------------------------------------------- dudt
\* powerGen is called by dudt and defined nowhere in the sources at hand.
\* By the description of the solver the source term is constant in time,
\* proportional to A, and (documented variant) the solar intensity absorbed
\* on the top face only.
powerGen(u, intensity, A) ==
  Build(u.shape, LAMBDA c : IF c[3] = u.shape[3] - 1 THEN A * intensity ELSE 0)

\* alpha*lap3DFE(u,dx) + powerGen(u,intensity,A) + bdryConv(u,Tair,B).  A
\* value is kept as the exact sum alpha * lap.num / lap.den + src, with
\* alpha = thermalDiffusivity left symbolic.
dudt(u, intensity, dx, Tair, A, B) ==
  Once(u, LAMBDA a :
  Once(lap3DFE(a, dx), LAMBDA lap :
  Once(powerGen(a, intensity, A), LAMBDA pg :
  Once(bdryConv(a, Tair, B), LAMBDA bc :
    Build(a.shape, LAMBDA c : [lap |-> At(lap, c), src |-> At(pg, c) + At(bc, c)])))))

dudtFlat(uflat, sh, intensity, dx, Tair, A, B) ==
  flatten(dudt(reshape(uflat, sh), intensity, dx, Tair, A, B))

\* The sign of alpha * num/den + src for 0 < alpha = 22.39e-6: the integer
\* src decides unless it is 0 (alpha * |num/den| < 1 for |num/den| < 44662).
Sgn(d) ==
  IF d.src > 0 THEN 1 ELSE IF d.src < 0 THEN -1
  ELSE IF d.lap.num > 0 THEN 1 ELSE IF d.lap.num < 0 THEN -1 ELSE 0

\* ------------------------------------------------------- simToyHotBox
GridShape == <<xmax, ymax, zmax>>

\* np.arange(0, tmax, nt): 0, nt, 2*nt, ... below tmax
arange(stop, step) == [i \in 1 .. ((stop + step - 1) \div step) |-> (i - 1) * step]

\* the t_span simToyHotBox hands to solve_ivp
SolveSpan(tm) == <<0, 10 * oneHour>>

\* the step size of the solver (its own choice; here t_span in equal parts)
StepSize == (10 * oneHour) \div SolverSteps

\* One step of the integrator: the numerical increment of a cell is kept to
\* its sign; a cell whose right-hand side is 0 keeps its value exactly.
StepY(yv, f) == Once(f, LAMBDA g : [n \in 1 .. Len(yv) |-> yv[n] + Sgn(g[n])])

Garbage == {0, airTemp}

Terminal == {"Completed", "Failed"}

\* lines 24-37: the grid constants and u0 = np.empty(...), whose elements are
\* whatever the memory held
Init ==
  /\ OpIdle /\ ExtIdle
  /\ Deltax \in 5 .. MaxDeltax
  /\ xmax = L \div Deltax /\ ymax = W \div Deltax /\ zmax = H \div Deltax
  /\ \E g \in Garbage : u0 = Full(<<L \div Deltax, W \div Deltax, H \div Deltax>>, g)
  /\ pc = "idle" /\ run = 0
  /\ status = [r \in 1 .. MaxRuns |-> "Uninitialized"]
  /\ argA = 0 /\ argB = 0 /\ argTmax = 0 /\ argNt = 0 /\ time = <<>> /\ tSpan = <<>>
  /\ solverT = 0 /\ solverY = <<>> /\ solT = <<>> /\ solY = <<>> /\ nfev = 0
  /\ solverCalled = FALSE /\ solverStatus = "none" /\ exc = "none" /\ ret = NoRet

\* an internal retry: the exception is caught and the body starts over
RaiseRetries(e) ==
  /\ pc' = "called" /\ exc' = e
  /\ UNCHANGED status

\* the call raises: nothing in simToyHotBox catches, the exception leaves it
Raise(e) ==
  /\ pc' = "raised" /\ exc' = e
  /\ status' = [status EXCEPT ![run] = "Failed"]

\* a caller calls simToyHotBox(A, B, tmax, nt)
Call ==
  /\ pc \in {"idle", "returned", "raised"}
  /\ run < MaxRuns
  /\ run' = run + 1
  /\ status' = [status EXCEPT ![run + 1] = "Running"]
  /\ \E a \in 0 .. 1, b \in 0 .. 1, k \in 1 .. MaxTmax, m \in 1 .. 2 :
       /\ argA' = a /\ argB' = b
       /\ argTmax' = k * 5 * oneHour
       /\ argNt' = m * 5 * oneHour
  /\ pc' = "called"
  /\ time' = <<>> /\ tSpan' = <<>> /\ solverT' = 0 /\ solverY' = <<>>
  /\ solT' = <<>> /\ solY' = <<>> /\ nfev' = 0 /\ solverCalled' = FALSE
  /\ solverStatus' = "none" /\ exc' = "none" /\ ret' = NoRet
  /\ UNCHANGED <<extVars, opVars, modVars>>

\* lines 122-128 up to the entry of solve_ivp, which checks t_eval against
\* t_span before it evaluates anything
Setup ==
  /\ pc = "called"
  /\ IF argB = 0
     THEN \* line 124: A*solarIntensity/B
          /\ Raise("ZeroDivisionError")
          /\ UNCHANGED <<u0, time, tSpan, solverT, solverY, solverCalled, solverStatus>>
     ELSE /\ u0' = Full(GridShape, airTemp)
          /\ time' = arange(argTmax, argNt)
          /\ tSpan' = SolveSpan(argTmax)
          /\ solverCalled' = TRUE
          /\ IF \E i \in 1 .. Len(time') : time'[i] < tSpan'[1] \/ time'[i] > tSpan'[2]
             THEN /\ Raise("ValueError")
                  /\ UNCHANGED <<solverT, solverY, solverStatus>>
             ELSE /\ solverT' = tSpan'[1]
                  /\ solverY' = flatten(u0')
                  /\ solverStatus' = "running"
                  /\ pc' = "solving"
                  /\ UNCHANGED <<exc, status>>
  /\ UNCHANGED <<extVars, opVars, Deltax, xmax, ymax, zmax, run, argA, argB, argTmax, argNt,
                 solT, solY, nfev, ret>>

\* the solver evaluates the right-hand side at (t0, y0) before its first step
SolverInit ==
  /\ pc = "solving"
  /\ nfev' = nfev + 1
  /\ IF LapRaises(GridShape)
     THEN Raise("IndexError")
     ELSE pc' = "stepping" /\ UNCHANGED <<exc, status>>
  /\ UNCHANGED <<extVars, opVars, modVars, run, argA, argB, argTmax, argNt, time, tSpan,
                 solverT, solverY, solT, solY, solverCalled, solverStatus, ret>>

\* the value simToyHotBox returns: the solver's result object
Result(ts, ys, ok) == [t |-> ts, y |-> ys, status |-> IF ok THEN 0 ELSE -1, success |-> ok]

\* line 131
Return(ts, ys, ok) ==
  /\ ret' = Result(ts, ys, ok)
  /\ pc' = "returned"
  /\ status' = [status EXCEPT ![run] = IF ok THEN "Completed" ELSE "Failed"]

\* the time the solver reaches with one more step
NextT(tcur) == IF tcur + StepSize > tSpan[2] THEN tSpan[2] ELSE tcur + StepSize

\* one step of the solver: it evaluates the right-hand side, advances, and
\* emits the requested times it has passed; the step that reaches the end of
\* t_span finishes the integration and simToyHotBox returns
StepOk ==
  /\ pc = "stepping"
  /\ \E yn \in {StepY(solverY, dudtFlat(solverY, GridShape, solarIntensity, Deltax,
                                          airTemp, argA, argB))} :
     LET tn == NextT(solverT)
         due == {i \in 1 .. Len(time) : i > Len(solT) /\ time[i] <= tn}
         ts == solT \o [i \in 1 .. Cardinality(due) |-> time[Len(solT) + i]]
         ys == solY \o [i \in 1 .. Cardinality(due) |->
                          IF time[Len(solT) + i] <= solverT THEN solverY ELSE yn]
     IN  /\ solverT' = tn /\ solverY' = yn
         /\ solT' = ts /\ solY' = ys
         /\ nfev' = nfev + 1
         /\ IF tn = tSpan[2]
            THEN solverStatus' = "finished" /\ Return(ts, ys, TRUE)
            ELSE UNCHANGED <<solverStatus, ret, pc, status>>
  /\ UNCHANGED <<extVars, opVars, modVars, run, argA, argB, argTmax, argNt, time, tSpan,
                 solverCalled, exc>>

\* a step of the solver fails (the step size it needs is below the spacing
\* of floating-point numbers): solve_ivp stops with status -1 and its result,
\* holding the outputs collected so far, is returned as it is
StepFails ==
  /\ pc = "stepping"
  /\ solverStatus' = "failed"
  /\ nfev' = nfev + 1
  /\ Return(solT, solY, FALSE)
  /\ UNCHANGED <<extVars, opVars, modVars, run, argA, argB, argTmax, argNt, time, tSpan,
                 solverT, solverY, solT, solY, solverCalled, exc>>

RunStep == Setup \/ SolverInit \/ StepOk \/ StepFails

Next == Call \/ RunStep

Spec == Init /\ [][Next]_vars

\* a call, once made, runs on to its end: it is one synchronous call; a step
\* that can fail need not
FairSpec == Spec /\ WF_vars(Setup) /\ WF_vars(SolverInit) /\ WF_vars(StepOk)

\* ------------------------------------------------------- claims C1 .. C4
IsConstant(u) == \A n \in 1 .. Size(u.shape) : u.val[n] = u.val[1]

\* the number of axes on which cell c sits at index 0 or at the last index
NBoundary(sh, c) == Cardinality({a \in 1 .. 3 : c[a] = 0 \/ c[a] = sh[a] - 1})

\* the number of boundary faces cell c touches
NFaces(sh, c) == Cardinality({f \in Faces : OnFace(sh, c, f)})

\* C1: for a spatially constant field on a grid with at least 3 cells along
\* each axis, lap3DFE is 0 at every cell, interior, face, edge and corner.
C1_ConstantFieldZeroLaplacian ==
  (opPc = "lap" /\ IsConstant(umat)) =>
     \A n \in 1 .. Size(umat.shape) : lapOut.val[n].num = 0

C1_Witness ==
  /\ opPc = "lap" /\ IsConstant(umat) /\ dxIn = 2
  /\ umat.shape = <<MaxDim, 4, 3>>
  /\ lapOut.shape = umat.shape
  /\ At(lapOut, <<0, 0, 0>>).num = 0 /\ At(lapOut, <<0, 0, 0>>).den = 8

\* cell c moved to index i on axis a
Moved(c, a, i) == [c EXCEPT ![a] = i]

Dist(c, d) ==
  LET abs(x) == IF x < 0 THEN -x ELSE x
  IN  abs(c[1] - d[1]) + abs(c[2] - d[2]) + abs(c[3] - d[3])

\* C2: for every boundary cell, lap3DFE reads only the cell and its in-grid
\* nearest neighbours; on each axis where the cell sits at index 0 (at the
\* last index) it reads the neighbour at index 1 (at the last index - 1) in
\* place of the missing one, and it reads no cell further away than 1.
C2_ReflectiveStencil ==
  opPc = "lap" =>
     \A c \in Cells(umat.shape) :
        NBoundary(umat.shape, c) > 0 =>
           /\ \A d \in At(lapReads, c) : Dist(c, d) <= 1
           /\ \A a \in 1 .. 3 :
                 /\ c[a] = 0 => Moved(c, a, 1) \in At(lapReads, c)
                 /\ c[a] = umat.shape[a] - 1 =>
                       Moved(c, a, umat.shape[a] - 2) \in At(lapReads, c)

\* C3 as stated: bdryConv is 0 at a cell touching no boundary face and
\* n * B * (Tair - u[cell]) at a cell touching n boundary faces.
C3_AccumulatedPerFace ==
  opPc = "conv" =>
     \A c \in Cells(umat.shape) :
        At(convOut, c) = NFaces(umat.shape, c) * BIn * (TairIn - At(umat, c))

\* C3 amended: bdryConv is 0 at a cell touching no boundary face and
\* B * (Tair - u[cell]) at a cell touching one or more boundary faces: an
\* edge or corner cell gets the contribution once, not once per face.
C3_OncePerBoundaryCell ==
  opPc = "conv" =>
     \A c \in Cells(umat.shape) :
        At(convOut, c) =
           IF NFaces(umat.shape, c) = 0 THEN 0 ELSE BIn * (TairIn - At(umat, c))

C3_Witness ==
  /\ opPc = "conv" /\ BIn = 2 /\ TairIn = airTemp
  /\ At(umat, <<0, 0, 0>>) = airTemp + 1
  /\ At(convOut, <<0, 0, 0>>) = -2
  /\ At(convOut, <<0, 0, 1>>) = 0
  /\ At(convOut, <<1, 1, 1>>) = 0

\* 4 * dx^2 times the sum of elements lo .. hi of the field (every divisor
\* of lap3DFE divides 4 * dx^2), summed by halves
RECURSIVE Sum4(_, _, _, _)
Sum4(lap, dx, lo, hi) ==
  IF lo > hi THEN 0
  ELSE IF lo = hi THEN lap.val[lo].num * ((4 * dx * dx) \div lap.val[lo].den)
  ELSE LET mid == (lo + hi) \div 2
       IN  Sum4(lap, dx, lo, mid) + Sum4(lap, dx, mid + 1, hi)

\* C4: the sum of lap3DFE(u, dx) over all cells is 0 for every field u on a
\* grid with at least 3 cells per axis.
C4_LaplacianSumsToZero ==
  opPc = "lap" => Sum4(lapOut, dxIn, 1, Size(lapOut.shape)) = 0

\* ------------------------------------------------------ claims C5 .. C10
Ended == pc \in {"returned", "raised"}

GridTooSmall == xmax < 3 \/ ymax < 3 \/ zmax < 3

\* C5: a call with A = 0 and B = 0 on a grid with at least 3 cells per axis
\* integrates, and every cell of every snapshot it returns equals the initial
\* uniform temperature.
C5_ZeroCouplingKeepsField ==
  (Ended /\ argA = 0 /\ argB = 0 /\ ~GridTooSmall) =>
     /\ pc = "returned"
     /\ \A i \in 1 .. Len(ret.y) : ret.y[i] = flatten(Full(GridShape, airTemp))

\* C6: simToyHotBox integrates over [0, tmax]; every requested output time
\* lies in the integrated interval and appears in the result of a completed
\* run.
C6_IntegratesToTmax ==
  /\ solverCalled =>
        /\ tSpan = <<0, argTmax>>
        /\ \A i \in 1 .. Len(time) : tSpan[1] <= time[i] /\ time[i] <= tSpan[2]
  /\ (run > 0 /\ status[run] = "Completed") => ret.t = time

\* C7: a call on a grid with fewer than 3 cells along an axis is rejected
\* with a ConfigurationError before any integration attempt: the solver is
\* not called and the right-hand side is not evaluated.  (Stated for calls
\* with B # 0, which get past line 124.)
C7_SmallGridRejected ==
  (GridTooSmall /\ run > 0 /\ argB # 0 /\ pc # "called") =>
     /\ ~solverCalled /\ nfev = 0
     /\ pc = "raised" /\ exc = "ConfigurationError"

\* C8: when the solver cannot complete the integration, simToyHotBox raises
\* an IntegrationError; it does not return the truncated trajectory.
C8_SolverFailureRaises ==
  solverStatus = "failed" => (pc = "raised" /\ exc = "IntegrationError")

\* C9: every run goes Uninitialized -> Running -> Completed or Failed: a run
\* that has started ends in one of the two, stays there, and never runs
\* again.
C9_RunLifecycle ==
  /\ [][\A r \in 1 .. MaxRuns :
          /\ status[r] = "Uninitialized" => status'[r] \in {"Uninitialized", "Running"}
          /\ status[r] = "Running" => status'[r] \in {"Running"} \cup Terminal
          /\ status[r] \in Terminal => status'[r] = status[r]]_vars
  /\ \A r \in 1 .. MaxRuns : (status[r] = "Running") ~> (status[r] \in Terminal)

C9_Witness ==
  /\ run = 2 /\ status[1] = "Completed" /\ status[2] = "Failed"
  /\ pc = "returned" /\ solverStatus = "failed" /\ Len(solT) > 0

\* C10: a call writes no module-level state: u0 and the grid constants have
\* the same value after every step of a call as before it.
C10_NoModuleStateWritten ==
  [][u0' = u0 /\ Deltax' = Deltax /\ xmax' = xmax /\ ymax' = ymax /\ zmax' = zmax]_vars


\* ------------------------------------------------------------ claim C11
\* the class of a stencil formula: of the six neighbour directions, those
\* for which the formula has no term of its own (6 neighbour terms and the
\* centre: interior 0; 5: face 1; 4: edge 2; 3: corner 3)
MissingNeighbours(row) == 7 - Len(row.terms)

\* the axes on which the target of a row is an integer index (0 or -1)
PinnedAxes(row) == {a \in 1 .. 3 : row.tgt[a][1] = "abs"}

\* C11: on a grid with at least 3 cells along each axis, every cell is
\* written by exactly one of the 27 slice assignments of lap3DFE, and the
\* formula of that assignment has as many missing neighbours (interior 0,
\* face 1, edge 2, corner 3) as the cell has axes at index 0 or at the
\* last index.
C11_ClassMatchesBoundaryAxes ==
  opPc = "lap" =>
     \A n \in 1 .. Size(umat.shape) :
        \E c \in {Unravel(umat.shape, n - 1)} :
        \E r \in {AssignmentTable[PosOf(umat.shape, c)]} :
        \E b \in {NBoundary(umat.shape, c)} :
           \* r is the assignment whose value lap3DFE leaves in lap[c]
           /\ Writers(Assignments, umat.shape, c) = {r}
           /\ MissingNeighbours(Assignments[r]) = b
           /\ Cardinality(PinnedAxes(Assignments[r])) = b

C11_Witness ==
  /\ opPc = "lap" /\ umat.shape = <<MaxDim, 4, 3>>
  /\ lapOut.shape = umat.shape
  /\ \A b \in 0 .. 3 : \E c \in Cells(umat.shape) :
        /\ NBoundary(umat.shape, c) = b
        /\ MissingNeighbours(Assignments[FinalRow(Assignments, umat.shape, c)]) = b

\* ------------------------------------------------- scrape_wunderground.py
\* the pages a driver can hand back: whether lib-history-table is there,
\* its number of tbody tags, the tr tags of the first, the value spans of
\* the second, and whether one of their texts is neither a number nor '--'
Pages ==
  [container : BOOLEAN, tbodies : 0 .. 2, hours : 1 .. MaxRows,
   ncells : {NColumns * k + e : k \in 1 .. MaxRows, e \in 0 .. 1}, bad : BOOLEAN]

\* scrape_wunderground after render_page: the exception it raises on the
\* page, or "none"
ParseError(pg) ==
  IF ~pg.container THEN "ValueError"            \* line 79
  ELSE IF pg.tbodies < 2 THEN "IndexError"      \* all_checks[0], all_checks[1]
  ELSE IF pg.bad THEN "ValueError"              \* np.array(data_nan, dtype=float)
  ELSE IF pg.ncells % NColumns # 0 THEN "ValueError"   \* reshape(-1, len(columns))
  ELSE "none"

\* the dataframe scrape_wunderground returns: timestamps and the 8 columns
ParseDf(pg) ==
  [columns |-> NColumns + 1, timestamps |-> pg.hours, rows |-> pg.ncells \div NColumns]

\* pd.DataFrame()
EmptyDf == [columns |-> 0, timestamps |-> 0, rows |-> 0]

WaitTimes == {0, 5}

ScrInit ==
  /\ OpIdle /\ RunIdle /\ ColIdle /\ FlatIdle
  /\ scrPc = "idle" /\ attempts = 0 /\ wait_time = 0 /\ started = 0
  /\ df = NoDf /\ page = NoPage /\ drivers = 0 /\ produced = NoDf
  /\ scrExc = "none" /\ scrRet = NoDf /\ scrLog = <<>>

\* a caller calls scrape_multiattempt(station, date, attempts, wait_time)
ScrCall ==
  /\ scrPc = "idle"
  /\ \E a \in 0 .. MaxAttempts, w \in WaitTimes : attempts' = a /\ wait_time' = w
  /\ scrPc' = "loop"
  /\ UNCHANGED <<started, df, page, drivers, produced, scrExc, scrRet, scrLog>>

\* for n in range(attempts): the next iteration calls scrape_wunderground;
\* with the range used up the else clause of the loop sets df = pd.DataFrame()
LoopHead ==
  /\ scrPc = "loop"
  /\ IF started < attempts
       THEN /\ started' = started + 1
            /\ scrLog' = Append(scrLog, "call")
            /\ scrPc' = "chrome"
            /\ df' = df
       ELSE /\ df' = EmptyDf
            /\ scrPc' = "return"
            /\ UNCHANGED <<started, scrLog>>
  /\ UNCHANGED <<attempts, wait_time, page, drivers, produced, scrExc, scrRet>>

\* the except clause without a class: it only catches ValueError
ExceptValueErrorOnly(e) ==
  /\ scrExc' = e
  /\ scrLog' = Append(scrLog, "fail")
  /\ scrPc' = IF e = "ValueError" THEN "sleep" ELSE "raised"

\* an exception inside the try: the bare except catches whatever it is
Except(e) ==
  /\ scrExc' = e
  /\ scrLog' = Append(scrLog, "fail")
  /\ scrPc' = "sleep"

\* render_page: driver = webdriver.Chrome(chromedriver_path)
NewDriver ==
  /\ scrPc = "chrome"
  /\ \/ /\ drivers' = drivers + 1
        /\ scrPc' = "get"
        /\ UNCHANGED <<scrExc, scrLog>>
     \/ /\ Except("WebDriverException")
        /\ UNCHANGED drivers
  /\ UNCHANGED <<attempts, wait_time, started, df, page, produced, scrRet>>

\* render_page: driver.get(url)
DriverGet ==
  /\ scrPc = "get"
  /\ \/ /\ \E pg \in Pages : page' = pg
        /\ scrPc' = "source"
        /\ UNCHANGED <<scrExc, scrLog>>
     \/ /\ Except("WebDriverException")
        /\ UNCHANGED page
  /\ UNCHANGED <<attempts, wait_time, started, df, drivers, produced, scrRet>>

\* render_page: time.sleep(3); r = driver.page_source
PageSource ==
  /\ scrPc = "source"
  /\ \/ /\ scrPc' = "quit"
        /\ UNCHANGED <<scrExc, scrLog>>
     \/ Except("WebDriverException")
  /\ UNCHANGED <<attempts, wait_time, started, df, page, drivers, produced, scrRet>>

\* render_page: driver.quit(); return r
DriverQuit ==
  /\ scrPc = "quit"
  /\ drivers' = drivers - 1
  /\ scrPc' = "parse"
  /\ UNCHANGED <<attempts, wait_time, started, df, page, produced, scrExc, scrRet, scrLog>>

\* the rest of scrape_wunderground; when it returns, the else clause of the
\* try breaks out of the loop, past the loop's else clause
ParseNoBreak ==
  /\ scrPc = "parse"
  /\ IF ParseError(page) # "none"
       THEN Except(ParseError(page)) /\ UNCHANGED <<df, produced>>
       ELSE /\ df' = ParseDf(page) /\ produced' = ParseDf(page)
            /\ scrLog' = Append(scrLog, "ok")
            /\ scrPc' = "loop"
            /\ UNCHANGED scrExc
  /\ UNCHANGED <<attempts, wait_time, started, page, drivers, scrRet>>

Parse ==
  /\ scrPc = "parse"
  /\ IF ParseError(page) # "none"
       THEN Except(ParseError(page)) /\ UNCHANGED <<df, produced>>
       ELSE /\ df' = ParseDf(page) /\ produced' = ParseDf(page)
            /\ scrLog' = Append(scrLog, "ok")
            /\ scrPc' = "return"
            /\ UNCHANGED scrExc
  /\ UNCHANGED <<attempts, wait_time, started, page, drivers, scrRet>>

\* except: time.sleep(wait_time), then the next iteration
Sleep ==
  /\ scrPc = "sleep"
  /\ scrLog' = Append(scrLog, "wait")
  /\ scrPc' = "loop"
  /\ UNCHANGED <<attempts, wait_time, started, df, page, drivers, produced, scrExc, scrRet>>

\* return df
ScrReturn ==
  /\ scrPc = "return"
  /\ scrRet' = df
  /\ scrPc' = "done"
  /\ UNCHANGED <<attempts, wait_time, started, df, page, drivers, produced, scrExc, scrLog>>

ScrStep ==
  /\ \/ LoopHead \/ NewDriver \/ DriverGet \/ PageSource \/ DriverQuit
     \/ Parse \/ Sleep \/ ScrReturn
  /\ UNCHANGED <<opVars, modVars, runVars, colVars, flatVars>>

ScrNext == (ScrCall /\ UNCHANGED <<opVars, modVars, runVars, colVars, flatVars>>) \/ ScrStep

ScrSpec == ScrInit /\ [][ScrNext]_vars

\* a call that has started runs on: the interpreter executes its next
\* statement, and the driver and time.sleep come back
ScrFairSpec == ScrSpec /\ WF_vars(ScrStep)

\* ------------------------------------------------ claims C12, C13, C14, C17
\* the number of entries e of the log
Count(e) == Cardinality({i \in 1 .. Len(scrLog) : scrLog[i] = e})

AllFailed == Count("ok") = 0

\* C12: scrape_multiattempt calls scrape_wunderground at most attempts
\* times; the first call that succeeds is the last call, and what it
\* returned is what scrape_multiattempt returns.
C12_StopsAtFirstSuccess ==
  /\ Count("call") <= attempts
  /\ \A i \in 1 .. Len(scrLog) : scrLog[i] = "ok" => i = Len(scrLog)
  /\ (scrPc = "done" /\ ~AllFailed) => scrRet = produced /\ scrRet # EmptyDf

C12_Witness ==
  /\ scrPc = "done" /\ attempts = MaxAttempts
  /\ scrLog = <<"call", "fail", "wait", "call", "ok">>
  /\ scrRet = [columns |-> NColumns + 1, timestamps |-> 1, rows |-> MaxRows]

\* C13: when every call of scrape_wunderground fails (also with attempts = 0,
\* where there is none), scrape_multiattempt ends and returns an empty
\* dataframe; no exception, whatever its kind, leaves it.
C13_AllFailedReturnsEmpty ==
  /\ [](scrPc # "raised")
  /\ []((scrPc = "done" /\ AllFailed) => scrRet = EmptyDf)
  /\ (scrPc = "loop") ~> (scrPc = "done")

C13_Witness ==
  /\ scrPc = "done" /\ attempts = 2 /\ scrRet = EmptyDf
  /\ Count("fail") = 2 /\ scrExc = "IndexError"

\* C14: a wait is followed by another attempt: when all attempts calls fail
\* there are attempts - 1 waits, none of them after the last failed call.
C14_WaitsOnlyBetweenAttempts ==
  /\ \A i \in 1 .. Len(scrLog) :
        (scrLog[i] = "wait" /\ scrPc = "done") => (i < Len(scrLog) /\ scrLog[i + 1] = "call")
  /\ (scrPc = "done" /\ AllFailed /\ attempts >= 1) => Count("wait") = attempts - 1

\* C17: outside render_page no driver that render_page created is running.
C17_NoDriverLeftRunning ==
  scrPc \in {"idle", "loop", "chrome", "parse", "sleep", "return", "done"} => drivers = 0

\* ------------------------------------------------- puckStickCollision.py
\* Velocities are counted in 1/VelUnit of the scene's unit, which makes the
\* root of doCollision's equations and the centre-of-mass velocity whole
\* numbers; times in steps of 1/StepsPerSecond; positions and angles in
\* 1/PosUnit.
SumSq == stickLen * stickLen + 12 * impactB * impactB

VelUnit == 10 * (m1 * SumSq + m2 * stickLen * stickLen) * (m1 + m2)

PosUnit == VelUnit * StepsPerSecond

Abs(x) == IF x < 0 THEN -x ELSE x

\* doCollision: the root of eq1, eq2, eq3 that fsolve reaches from the
\* elastic guess, on which the impact point leaves the puck behind
\* (v2 + b*omega2 - v1 = cor*|u1|), with I = m2*L**2/12:
\*   v1 = u1 * (m1*S - cor*m2*L**2) / (m1*S + m2*L**2),  S = L**2 + 12*b**2
\*   v2 = m1*(u1 - v1)/m2,  omega2 = m1*b*(u1 - v1)/I
doCollision ==
  LET vel1 == (u1 * VelUnit * (10 * m1 * SumSq - corTenths * m2 * stickLen * stickLen))
                \div (10 * (m1 * SumSq + m2 * stickLen * stickLen))
      vel2 == (m1 * (u1 * VelUnit - vel1)) \div m2
      om2  == (12 * m1 * impactB * (u1 * VelUnit - vel1)) \div (m2 * stickLen * stickLen)
  IN  <<vel1, vel2, om2>>

v1 == doCollision[1]

v2 == doCollision[2]

omega2 == doCollision[3]

Mobs == {"puck", "stick", "cm"}

\* cm.vx of lines 132 and 174
CmVx(ms) == (m1 * ms["puck"].vx + m2 * ms["stick"].vx) \div (m1 + m2)

\* construct: the three objects before the first frame
Placed ==
  LET pk == [cx |-> -4 * PosUnit, cy |-> -impactB * PosUnit, vx |-> u1 * VelUnit,
             vy |-> 0, omega |-> 0, rot |-> 0, coll |-> FALSE]
      st == [cx |-> 0, cy |-> 0, vx |-> 0, vy |-> 0, omega |-> 0, rot |-> 0,
             coll |-> FALSE]
  IN  [mob \in Mobs |->
         IF mob = "puck" THEN pk
         ELSE IF mob = "stick" THEN st
         ELSE [cx |-> (m1 * pk.cx + m2 * st.cx) \div (m1 + m2),
               cy |-> (m1 * pk.cy + m2 * st.cy) \div (m1 + m2),
               vx |-> (m1 * pk.vx + m2 * st.vx) \div (m1 + m2),
               vy |-> (m1 * pk.vy + m2 * st.vy) \div (m1 + m2),
               omega |-> 0, rot |-> 0, coll |-> FALSE]]

\* handle_collision: theta = stick.angle is the 0 the stick was built with,
\* so tan(theta) = 0 and the system solves to X = x0, Y = yp: dist is the
\* distance along x between the centres.  buffer = stick.thickness + puck.radius
Near(ms) ==
  10 * Abs(ms["stick"].cx - ms["puck"].cx) <= (thkTenths + radTenths) * PosUnit

\* lines 170-178 with the new velocities, before the flags are set
Collided(ms) ==
  LET hit == [ms EXCEPT !["puck"].vx = v1, !["stick"].vx = v2, !["stick"].omega = omega2]
  IN  [hit EXCEPT !["cm"].vx = CmVx(hit)]

\* a slip: the flag of the updated object alone is set
handle_collisionOwnFlag(ms, mob) ==
  IF ~ms[mob].coll /\ Near(ms)
    THEN [mobs |-> [Collided(ms) EXCEPT ![mob].coll = TRUE], hit |-> 1]
    ELSE [mobs |-> ms, hit |-> 0]

handle_collision(ms, mob) ==
  IF ~ms[mob].coll /\ Near(ms)
    THEN [mobs |-> [c \in Mobs |-> [Collided(ms)[c] EXCEPT !.coll = TRUE]], hit |-> 1]
    ELSE [mobs |-> ms, hit |-> 0]

\* update(mob, dt): shift by the velocity, rotate by omega, handle_collision
update(ms, mob, dt) ==
  handle_collision(
    [ms EXCEPT ![mob].cx = @ + ms[mob].vx * dt,
               ![mob].cy = @ + ms[mob].vy * dt,
               ![mob].rot = @ + ms[mob].omega * dt], mob)

ColInit ==
  /\ OpIdle /\ RunIdle /\ ScrIdle /\ FlatIdle
  /\ colPc = "play"
  /\ mobs = Placed
  /\ clock = [mob \in Mobs |-> 0]
  /\ assigned = 0

\* the scene calls the updater of one object with the time since its last call
Update ==
  /\ colPc = "play"
  /\ \E mob \in Mobs, dt \in 1 .. MaxDt :
       /\ clock[mob] + dt <= MaxTime
       /\ clock' = [clock EXCEPT ![mob] = @ + dt]
       /\ \E res \in {update(mobs, mob, dt)} :
            /\ mobs' = res.mobs
            /\ assigned' = assigned + res.hit
  /\ UNCHANGED <<colPc, opVars, modVars, runVars, scrVars, flatVars>>

ColNext == Update

ColSpec == ColInit /\ [][ColNext]_vars

\* ------------------------------------------------------------- claim C15
\* C15: over any sequence of update(mob, dt) calls on puck, stick and cm
\* the velocities of the collision are assigned at most once; before that
\* no coll flag is set, and from then on all three are set and every
\* velocity is the one the collision left (v1, v2, omega2; the others
\* untouched).
C15_CollisionAppliedOnce ==
  colPc = "play" =>
    /\ assigned <= 1
    /\ assigned = 0 => \A c \in Mobs : ~mobs[c].coll /\ mobs[c].vx = Placed[c].vx
    /\ assigned >= 1 =>
         /\ \A c \in Mobs : mobs[c].coll
         /\ mobs["puck"].vx = v1 /\ mobs["stick"].vx = v2 /\ mobs["stick"].omega = omega2
         /\ mobs["cm"].vx = Placed["cm"].vx
    /\ \A c \in Mobs : mobs[c].vy = 0
    /\ mobs["puck"].omega = 0 /\ mobs["cm"].omega = 0

\* the collision has been applied and all three objects updated after it
C15_Witness ==
  /\ colPc = "play" /\ assigned = 1
  /\ mobs["stick"].rot > 0 /\ mobs["stick"].cx > 0
  /\ mobs["puck"].cx > 0
  /\ clock["cm"] = MaxTime

\* ------------------------------------------------------------- dudtFlat
\* a field whose elements all differ: element <<i,j,k>> is 100*i + 10*j + k
Ramp(sh) == Build(sh, LAMBDA c : 100 * c[1] + 10 * c[2] + c[3])

\* per shape: the ramp, the initial field of simToyHotBox, and that field
\* with the element <<xmax-1, 0, zmax-1>> raised
FlatInputs ==
  UNION {{Ramp(sh), Full(sh, airTemp), Bump(sh, airTemp, <<sh[1] - 1, 0, sh[3] - 1>>)} :
           sh \in Shapes}

FlatInit ==
  /\ RunIdle /\ ExtIdle
  /\ opPc = "input"
  /\ umat \in FlatInputs
  /\ dxIn = 0 /\ TairIn = 0 /\ BIn = 0
  /\ lapOut = NoField /\ lapReads = NoField /\ convOut = NoField

\* y0 = u.flatten() (line 128), then the solver's call
\* dudtFlat(t, y0, alpha, intensity, dx, Tair, A, B), next to dudt on u itself
ApplyDudtFlat ==
  /\ opPc = "input"
  /\ \E A \in 0 .. 1, B \in 0 .. MaxB, y \in {flatten(umat)} :
       /\ AIn' = A /\ BIn' = B /\ dxIn' = 1 /\ TairIn' = airTemp
       /\ flatIn' = y
       /\ uBack' = reshape(y, umat.shape)
       /\ flatOut' = dudtFlat(y, umat.shape, solarIntensity, 1, airTemp, A, B)
       /\ dudtOut' = dudt(umat, solarIntensity, 1, airTemp, A, B)
  /\ opPc' = "flat"
  /\ UNCHANGED <<umat, lapOut, lapReads, convOut, modVars, runVars, scrVars, colVars>>

FlatNext == ApplyDudtFlat

FlatSpec == FlatInit /\ [][FlatNext]_vars

\* ------------------------------------------------------------- claim C16
\* C16: for a field u of shape (xmax, ymax, zmax), the reshape in dudtFlat
\* of u.flatten() is u again, element i*ymax*zmax + j*zmax + k of the
\* flattened field is u[i,j,k], and that element of dudtFlat's result is
\* the value dudt gives for cell (i,j,k).
C16_FlatIndexCorrespondence ==
  opPc = "flat" =>
    /\ uBack = umat
    /\ Len(flatOut) = Size(umat.shape) /\ Len(flatIn) = Size(umat.shape)
    /\ \A i \in 0 .. umat.shape[1] - 1, j \in 0 .. umat.shape[2] - 1,
          k \in 0 .. umat.shape[3] - 1 :
          \E n \in {i * umat.shape[2] * umat.shape[3] + j * umat.shape[3] + k + 1} :
             /\ flatIn[n] = At(umat, <<i, j, k>>)
             /\ flatOut[n] = At(dudtOut, <<i, j, k>>)

C16_Witness ==
  /\ opPc = "flat" /\ umat = Ramp(<<MaxDim, 4, 3>>) /\ AIn = 1 /\ BIn = 1
  /\ flatIn[4 * 3 + 3 + 2 + 1] = 112
  /\ flatOut[4 * 3 + 3 + 2 + 1] # flatOut[1]

=============================================================================
